---- MODULE Spec2Model ----
(***************************************************************************)
(* arch/risc-v/src/common/crt1.c: the user-mode entry point __start of a   *)
(* task (trampoline registration, .preinit_array / .init_array, atexit     *)
(* registration of .fini_array, main, exit) and the signal trampoline      *)
(* sig_trampoline.                                                         *)
(***************************************************************************)
EXTENDS Integers, Sequences, FiniteSets

(* ------------------------------------------------------------------ *)
(* Bounds of the model                                                 *)
(* ------------------------------------------------------------------ *)

\* longest .preinit_array / .init_array / .fini_array explored
MaxLen == 2

\* most signals delivered to one task in the signal specification
MaxSignals == 2

(* ------------------------------------------------------------------ *)
(* Values                                                              *)
(* ------------------------------------------------------------------ *)

\* a null initializer_t entry
NULL == 0

\* the address of sig_trampoline, as cast on line 211
SIG_TRAMPOLINE == 64

\* the values main may return, or task code may pass to exit
RetVals == {0, 7}

\* the status an initializer passes when it calls exit itself
InitializerExitStatus == {3}

\* the Task Start Contexts the kernel may hand to __start
StartContexts == { [argc |-> 1, argv |-> 256], [argc |-> 2, argv |-> 512] }

\* what the reserved area may hold before __start writes it
SigtrampBefore == {NULL, 128}

\* the registers of the task's own thread that a delivery inherits
TaskRegs == [ra |-> 300, t0 |-> 301, sp |-> 0]

\* the live stack of the task's own thread: the word __start keeps at its sp
TaskStack == { << TaskRegs.sp, 400 >> }

\* the function a phase's array holds at index i when the entry is not null:
\* every slot of every array names a function of its own
FuncAt(phase, i) ==
  CASE phase = "preinit" -> 10 + i
    [] phase = "init"    -> 20 + i
    [] phase = "fini"    -> 30 + i

\* the arrays the linker may produce for a phase: any length up to MaxLen,
\* any entry null
ArraysOf(phase) ==
  UNION { { s \in [1..n -> {NULL} \cup {FuncAt(phase, j) : j \in 0..(n-1)}] :
              \A j \in 1..n : s[j] \in {NULL, FuncAt(phase, j-1)} }
          : n \in 0..MaxLen }

VARIABLES
  HAVE_CXX,          \* CONFIG_HAVE_CXX of the build
  preinit_array,     \* __preinit_array_start .. __preinit_array_end
  init_array,        \* __init_array_start .. __init_array_end
  fini_array,        \* __fini_array_start .. __fini_array_end
  start_ctx,         \* the argc/argv the kernel passed at task entry
  argc, argv,        \* __start's parameters
  ret,               \* __start's local ret
  ar_sigtramp,       \* ARCH_DATA_RESERVE->ar_sigtramp
  sigtramp_writes,   \* number of stores to ar_sigtramp so far
  pc,                \* where the task's thread is
  incall,            \* inside an initializer() or main() call
  preinit, init, fini, \* the loop pointers, as offsets from the array start
  atexit_funcs,      \* functions registered with atexit, in registration order
  exit_status,       \* argument of the latest exit call
  trace,             \* what has happened so far: <<event, a, b>>
  sigstack,          \* the signal deliveries in progress, innermost last:
                     \* the registers of each and where it is in sig_trampoline
  mem,               \* the task's stack, at and above the lowest live sp
  nsignals,          \* signals delivered so far
  lastsig            \* the delivery that ended last, as it was at its ecall

vars == << HAVE_CXX, preinit_array, init_array, fini_array, start_ctx, argc, argv,
           ret, ar_sigtramp, sigtramp_writes, pc, incall, preinit, init, fini,
           atexit_funcs, exit_status, trace, sigstack, mem, nsignals, lastsig >>

sigvars == << sigstack, mem, nsignals, lastsig >>

lifevars == << HAVE_CXX, preinit_array, init_array, fini_array, start_ctx, argc, argv,
               ret, ar_sigtramp, sigtramp_writes, pc, incall, preinit, init, fini,
               atexit_funcs, exit_status, trace >>

config == << HAVE_CXX, preinit_array, init_array, fini_array, start_ctx >>

(* ------------------------------------------------------------------ *)
(* Helpers translated from the code                                    *)
(* ------------------------------------------------------------------ *)

\* the bug of storing nothing useful into ar_sigtramp
SigtrampValueNull == NULL

\* line 211: the value stored into ar_sigtramp
SigtrampValue == SIG_TRAMPOLINE

\* the bug of looping up to and including the end marker
InRangeInclusive(p, array) == p <= Len(array)

\* lines 123, 145, 167: the loop condition  p < end
InRange(p, array) == p < Len(array)

\* lines 125, 147, 169: initializer = *p; a read at or behind the end marker
\* yields what the linker placed behind the array, which is not a null pointer
Deref(array, p) == IF p < Len(array) THEN array[p + 1] ELSE 99

\* the bug of walking .fini_array from the end marker downwards
FiniEntryReverse(array, p) ==
  IF p < Len(array) THEN array[Len(array) - p] ELSE 99

\* line 169: exec_fini reads the entries from the start marker upwards
FiniEntry(array, p) == Deref(array, p)

\* the bug of calling an entry without testing it
IsCallableAlways(initializer) == TRUE

\* lines 127, 149, 171: if (initializer)
IsCallable(initializer) == initializer # NULL

\* lines 123, 145, 167: ++p
Advance(p) == p + 1

\* the bug of passing the arguments in the wrong order
MainArgsSwapped(c, v) == << v, c >>

\* line 226: the arguments main is called with
MainArgs(c, v) == << c, v >>

\* the bug of exiting with a fixed status
ExitArgZero(r) == 0

\* line 230: the argument of exit
ExitArg(r) == r

\* the bug of running the constructors before the pre-init functions
StartOrderInitFirst ==
  IF HAVE_CXX
  THEN << "start", "exec_init", "exec_preinit", "atexit", "main", "exit" >>
  ELSE << "start", "main", "exit" >>

\* the bug of never registering exec_fini
StartOrderNoAtexit ==
  IF HAVE_CXX
  THEN << "start", "exec_preinit", "exec_init", "main", "exit" >>
  ELSE << "start", "main", "exit" >>

\* the bug of leaving out the final exit call
StartOrderNoExit ==
  IF HAVE_CXX
  THEN << "start", "exec_preinit", "exec_init", "atexit", "main" >>
  ELSE << "start", "main" >>

\* the bug of registering exec_fini before the initializers have run
StartOrderAtexitFirst ==
  IF HAVE_CXX
  THEN << "start", "atexit", "exec_preinit", "exec_init", "main", "exit" >>
  ELSE << "start", "main", "exit" >>

\* the bug of running the initializers whether or not CONFIG_HAVE_CXX is set
StartOrderCxxAlways ==
  IF HAVE_CXX
  THEN << "start", "exec_preinit", "exec_init", "atexit", "main", "exit" >>
  ELSE << "start", "exec_preinit", "exec_init", "atexit", "main", "exit" >>

\* the bug of calling exec_fini from __start instead of registering it
StartOrderFiniDirect ==
  IF HAVE_CXX
  THEN << "start", "exec_preinit", "exec_init", "exec_fini", "main", "exit" >>
  ELSE << "start", "main", "exit" >>

\* lines 211-230: the statements of __start, in program order
StartOrder ==
  IF HAVE_CXX
  THEN << "start", "exec_preinit", "exec_init", "atexit", "main", "exit" >>
  ELSE << "start", "main", "exit" >>

\* the statement behind `step`; behind the last one control leaves __start
After(step) ==
  LET at == CHOOSE i \in 1..Len(StartOrder) : StartOrder[i] = step IN
  IF at < Len(StartOrder) THEN StartOrder[at + 1] ELSE "returned"

\* control reaches `step`; a loop pointer is set to the start marker on entry
Goto(step) ==
  /\ pc' = step
  /\ preinit' = IF step = "exec_preinit" THEN 0 ELSE preinit
  /\ init' = IF step = "exec_init" THEN 0 ELSE init

Log(e) == trace' = Append(trace, e)

\* the task's own thread runs only while no signal delivery is in progress
TaskRuns == sigstack = << >> /\ UNCHANGED sigvars

(* ------------------------------------------------------------------ *)
(* Initial state: the task has been created, __start has not run       *)
(* ------------------------------------------------------------------ *)

InitTask ==
  /\ preinit_array \in ArraysOf("preinit")
  /\ init_array \in ArraysOf("init")
  /\ fini_array \in ArraysOf("fini")
  /\ start_ctx \in StartContexts
  /\ argc = start_ctx.argc
  /\ argv = start_ctx.argv
  /\ ret = 0
  /\ ar_sigtramp \in SigtrampBefore
  /\ sigtramp_writes = 0
  /\ pc = "start"
  /\ incall = FALSE
  /\ preinit = 0 /\ init = 0 /\ fini = 0
  /\ atexit_funcs = << >>
  /\ exit_status = 0
  /\ trace = << >>
  /\ sigstack = << >>
  /\ mem = TaskStack
  /\ nsignals = 0
  /\ lastsig = << >>

Init ==
  /\ HAVE_CXX = TRUE
  /\ InitTask

(* ------------------------------------------------------------------ *)
(* __start                                                             *)
(* ------------------------------------------------------------------ *)

\* line 211, then line 215 (or 226 without CONFIG_HAVE_CXX)
start_sigtramp ==
  /\ TaskRuns
  /\ pc = "start"
  /\ ar_sigtramp' = SigtrampValue
  /\ sigtramp_writes' = sigtramp_writes + 1
  /\ Log(<<"sigtramp", SigtrampValue, 0>>)
  /\ Goto(After("start"))
  /\ UNCHANGED << config, argc, argv, ret, incall, fini, atexit_funcs, exit_status >>

\* lines 119-132: one pass of the loop of exec_preinit, up to the call
exec_preinit ==
  /\ TaskRuns
  /\ pc = "exec_preinit" /\ ~incall
  /\ IF InRange(preinit, preinit_array)
     THEN LET initializer == Deref(preinit_array, preinit) IN
          IF IsCallable(initializer)
          THEN /\ incall' = TRUE
               /\ Log(<<"preinit", preinit, initializer>>)
               /\ UNCHANGED << preinit, init, pc >>
          ELSE /\ preinit' = Advance(preinit)
               /\ UNCHANGED << incall, init, pc, trace >>
     ELSE /\ Goto(After("exec_preinit"))
          /\ UNCHANGED << incall, trace >>
  /\ UNCHANGED << config, argc, argv, ret, ar_sigtramp, sigtramp_writes, fini,
                  atexit_funcs, exit_status >>

\* lines 141-154: one pass of the loop of exec_init, up to the call
exec_init ==
  /\ TaskRuns
  /\ pc = "exec_init" /\ ~incall
  /\ IF InRange(init, init_array)
     THEN LET initializer == Deref(init_array, init) IN
          IF IsCallable(initializer)
          THEN /\ incall' = TRUE
               /\ Log(<<"init", init, initializer>>)
               /\ UNCHANGED << preinit, init, pc >>
          ELSE /\ init' = Advance(init)
               /\ UNCHANGED << incall, preinit, pc, trace >>
     ELSE /\ Goto(After("exec_init"))
          /\ UNCHANGED << incall, trace >>
  /\ UNCHANGED << config, argc, argv, ret, ar_sigtramp, sigtramp_writes, fini,
                  atexit_funcs, exit_status >>

\* line 221: atexit(exec_fini)
register_fini ==
  /\ TaskRuns
  /\ pc = "atexit"
  /\ atexit_funcs' = Append(atexit_funcs, "exec_fini")
  /\ Log(<<"atexit", 0, 0>>)
  /\ Goto(After("atexit"))
  /\ UNCHANGED << config, argc, argv, ret, ar_sigtramp, sigtramp_writes, incall,
                  fini, exit_status >>

\* line 226: the call of main
call_main ==
  /\ TaskRuns
  /\ pc = "main" /\ ~incall
  /\ incall' = TRUE
  /\ Log(<<"main", MainArgs(argc, argv)[1], MainArgs(argc, argv)[2]>>)
  /\ UNCHANGED << config, argc, argv, ret, ar_sigtramp, sigtramp_writes, pc,
                  preinit, init, fini, atexit_funcs, exit_status >>

\* line 226: main returns r, which is stored in ret
main_returns ==
  /\ TaskRuns
  /\ pc = "main" /\ incall
  /\ \E r \in RetVals :
       /\ ret' = r
       /\ Log(<<"main_ret", r, 0>>)
  /\ incall' = FALSE
  /\ Goto(After("main"))
  /\ UNCHANGED << config, argc, argv, ar_sigtramp, sigtramp_writes,
                  fini, atexit_funcs, exit_status >>

\* exit(status): the task stops what it was doing and runs the exit functions
EnterExit(status, caller) ==
  /\ exit_status' = status
  /\ Log(<<"exit", status, caller>>)
  /\ incall' = FALSE
  /\ pc' = "exit_funcs"

\* line 230: exit(ret)
call_exit ==
  /\ TaskRuns
  /\ pc = "exit"
  /\ EnterExit(ExitArg(ret), 0)
  /\ UNCHANGED << config, argc, argv, ret, ar_sigtramp, sigtramp_writes,
                  preinit, init, fini, atexit_funcs >>

(* ------------------------------------------------------------------ *)
(* exec_fini, run by exit                                              *)
(* ------------------------------------------------------------------ *)

\* lines 163-176: one pass of the loop of exec_fini, up to the call
exec_fini ==
  /\ TaskRuns
  /\ pc = "exec_fini" /\ ~incall
  /\ IF InRange(fini, fini_array)
     THEN LET initializer == FiniEntry(fini_array, fini) IN
          IF IsCallable(initializer)
          THEN /\ incall' = TRUE
               /\ Log(<<"fini", fini, initializer>>)
               /\ UNCHANGED << fini, pc >>
          ELSE /\ fini' = Advance(fini)
               /\ UNCHANGED << incall, pc, trace >>
     ELSE /\ pc' = "exit_funcs"
          /\ UNCHANGED << incall, fini, trace >>
  /\ UNCHANGED << config, argc, argv, ret, ar_sigtramp, sigtramp_writes, preinit, init,
                  atexit_funcs, exit_status >>

(* ------------------------------------------------------------------ *)
(* What the called task code may do                                    *)
(* ------------------------------------------------------------------ *)

InInitializer == incall /\ pc \in {"exec_preinit", "exec_init", "exec_fini"}

\* lines 129, 151, 173: initializer() returns, and the loop does ++p
initializer_returns ==
  /\ TaskRuns
  /\ InInitializer
  /\ incall' = FALSE
  /\ Log(<<"returned", 0, 0>>)
  /\ preinit' = IF pc = "exec_preinit" THEN Advance(preinit) ELSE preinit
  /\ init' = IF pc = "exec_init" THEN Advance(init) ELSE init
  /\ fini' = IF pc = "exec_fini" THEN Advance(fini) ELSE fini
  /\ UNCHANGED << config, argc, argv, ret, ar_sigtramp, sigtramp_writes, pc,
                  atexit_funcs, exit_status >>

\* an initializer calls exit itself
initializer_exits ==
  /\ TaskRuns
  /\ InInitializer
  /\ \E s \in InitializerExitStatus : EnterExit(s, 1)
  /\ UNCHANGED << config, argc, argv, ret, ar_sigtramp, sigtramp_writes,
                  preinit, init, fini, atexit_funcs >>

\* main calls exit itself instead of returning
main_exits ==
  /\ TaskRuns
  /\ pc = "main" /\ incall
  /\ \E s \in RetVals : EnterExit(s, 2)
  /\ UNCHANGED << config, argc, argv, ret, ar_sigtramp, sigtramp_writes,
                  preinit, init, fini, atexit_funcs >>

\* an initializer or main faults: the task is aborted where it stands
task_faults ==
  /\ TaskRuns
  /\ incall
  /\ incall' = FALSE
  /\ pc' = "fault"
  /\ Log(<<"fault", 0, 0>>)
  /\ UNCHANGED << config, argc, argv, ret, ar_sigtramp, sigtramp_writes,
                  preinit, init, fini, atexit_funcs, exit_status >>

(* ------------------------------------------------------------------ *)
(* exit: the registered functions, last registered first, each taken   *)
(* off the list before it is called; then the task terminates          *)
(* ------------------------------------------------------------------ *)

run_exit_funcs ==
  /\ TaskRuns
  /\ pc = "exit_funcs"
  /\ IF atexit_funcs # << >>
     THEN /\ atexit_funcs' = SubSeq(atexit_funcs, 1, Len(atexit_funcs) - 1)
          /\ pc' = "exec_fini"
          /\ fini' = 0
          /\ UNCHANGED trace
     ELSE /\ pc' = "done"
          /\ Log(<<"_exit", exit_status, 0>>)
          /\ UNCHANGED << atexit_funcs, fini >>
  /\ UNCHANGED << config, argc, argv, ret, ar_sigtramp, sigtramp_writes, incall,
                  preinit, init, exit_status >>

Next ==
  \/ start_sigtramp
  \/ exec_preinit
  \/ exec_init
  \/ register_fini
  \/ call_main
  \/ main_returns
  \/ call_exit
  \/ exec_fini
  \/ initializer_returns
  \/ initializer_exits
  \/ main_exits
  \/ task_faults
  \/ run_exit_funcs

Spec == Init /\ [][Next]_vars

(* ------------------------------------------------------------------ *)
(* sig_trampoline                                                      *)
(* ------------------------------------------------------------------ *)

\* the frame sig_trampoline pushes, in bytes (line 72 and line 80)
STACK_FRAME_SIZE == 16

\* the system call number loaded on line 81
SYS_signal_handler_return == 7

\* the return address jalr leaves in ra: the instruction on line 79
RETURN_ADDR == 79

\* what a register holds that nobody has set to anything meaningful
SCRATCH == 555

\* the Signal Invocation Records the kernel may deliver
SigRecords ==
  { [handler |-> 1000, signo |-> 10, info |-> 20, context |-> 30],
    [handler |-> 1001, signo |-> 11, info |-> 21, context |-> 31] }

\* the values a handler may leave in a0
HandlerReturns == {0, SYS_signal_handler_return + 1}

Top == sigstack[Len(sigstack)]

SetTop(c) == sigstack' = [sigstack EXCEPT ![Len(sigstack)] = c]

\* the registers of the context a new delivery interrupts
Interrupted == IF sigstack = << >> THEN TaskRegs ELSE Top

\* REGSTORE and REGLOAD; memory is a set of <<address, value>>
Store(m, a, v) == { c \in m : c[1] # a } \cup { << a, v >> }
Load(m, a) == IF \E c \in m : c[1] = a
              THEN (CHOOSE c \in m : c[1] = a)[2]
              ELSE SCRATCH

\* what lies below the stack pointer is not kept
Live(m, sp) == { c \in m : c[1] >= sp }

\* the bug of storing ra without making room for it
FrameAllocNone(c) == c
\* line 72: addi sp, sp, -STACK_FRAME_SIZE
FrameAlloc(c) == [c EXCEPT !.sp = c.sp - STACK_FRAME_SIZE]
\* line 74: mv t0, a0
MvT0(c) == [c EXCEPT !.t0 = c.a0]
\* the bug of taking signo from the wrong register
MvA0FromA2(c) == [c EXCEPT !.a0 = c.a2]
\* line 75: mv a0, a1
MvA0(c) == [c EXCEPT !.a0 = c.a1]
\* line 76: mv a1, a2
MvA1(c) == [c EXCEPT !.a1 = c.a2]
\* line 77: mv a2, a3
MvA2(c) == [c EXCEPT !.a2 = c.a3]
\* the bug of releasing less than was pushed
FrameReleaseHalf(c) == [c EXCEPT !.sp = c.sp + (STACK_FRAME_SIZE \div 2)]
\* line 80: addi sp, sp, STACK_FRAME_SIZE
FrameRelease(c) == [c EXCEPT !.sp = c.sp + STACK_FRAME_SIZE]
\* the bug of loading another system call number
LoadSyscallWrong(c) == [c EXCEPT !.a0 = SYS_signal_handler_return + 1]
\* the bug of leaving the handler's return value in a0
LoadSyscallKeep(c) == c
\* line 81: li a0, SYS_signal_handler_return
LoadSyscall(c) == [c EXCEPT !.a0 = SYS_signal_handler_return]

At_(line) == sigstack # << >> /\ Top.at = line

Step(c, line) == [c EXCEPT !.at = line]

\* the kernel redirects the task to the address in ar_sigtramp with the
\* record in a0..a3; the other registers are those of the interrupted context
sig_deliver ==
  /\ nsignals < MaxSignals
  /\ pc \notin {"start", "done", "fault"}
  /\ ar_sigtramp = SIG_TRAMPOLINE
  /\ sigstack # << >> => Top.at # 0
  /\ \E r \in SigRecords :
       sigstack' = Append(sigstack,
         [ at |-> 72, a0 |-> r.handler, a1 |-> r.signo, a2 |-> r.info,
           a3 |-> r.context, t0 |-> Interrupted.t0, ra |-> Interrupted.ra,
           sp |-> Interrupted.sp, rec |-> r, sp_entry |-> Interrupted.sp,
           ra_entry |-> Interrupted.ra, calls |-> << >>, ecalls |-> << >>,
           hret |-> << >> ])
  /\ nsignals' = nsignals + 1
  /\ UNCHANGED << lifevars, mem, lastsig >>

\* line 72
tramp_alloc ==
  /\ At_(72)
  /\ SetTop(Step(FrameAlloc(Top), 73))
  /\ UNCHANGED << lifevars, mem, nsignals, lastsig >>

\* line 73: REGSTORE ra, 0(sp)
tramp_save_ra ==
  /\ At_(73)
  /\ mem' = Store(mem, Top.sp, Top.ra)
  /\ SetTop(Step(Top, 74))
  /\ UNCHANGED << lifevars, nsignals, lastsig >>

\* lines 74-77
tramp_move_args ==
  /\ \/ At_(74) /\ SetTop(Step(MvT0(Top), 75))
     \/ At_(75) /\ SetTop(Step(MvA0(Top), 76))
     \/ At_(76) /\ SetTop(Step(MvA1(Top), 77))
     \/ At_(77) /\ SetTop(Step(MvA2(Top), 78))
  /\ UNCHANGED << lifevars, mem, nsignals, lastsig >>

\* line 78: jalr t0: the handler is entered with a0..a2, ra is the return address
tramp_call_handler ==
  /\ At_(78)
  /\ SetTop([Top EXCEPT !.at = 1, !.ra = RETURN_ADDR,
                        !.calls = Append(@, << Top.t0, Top.a0, Top.a1, Top.a2 >>)])
  /\ UNCHANGED << lifevars, mem, nsignals, lastsig >>

\* the handler returns to the address it was given: sp and the stack at and
\* above it are as at its entry, the caller-saved registers are not
handler_returns ==
  /\ At_(1)
  /\ \E v \in HandlerReturns, l \in {RETURN_ADDR, SCRATCH} :
       SetTop([Top EXCEPT !.at = 79, !.a0 = v, !.a1 = SCRATCH, !.a2 = SCRATCH,
                          !.a3 = SCRATCH, !.t0 = SCRATCH, !.ra = l,
                          !.hret = << v >>])
  /\ UNCHANGED << lifevars, mem, nsignals, lastsig >>

\* line 79: REGLOAD ra, 0(sp)
tramp_restore_ra ==
  /\ At_(79)
  /\ SetTop(Step([Top EXCEPT !.ra = Load(mem, Top.sp)], 80))
  /\ UNCHANGED << lifevars, mem, nsignals, lastsig >>

\* line 80
tramp_release ==
  /\ At_(80)
  /\ SetTop(Step(FrameRelease(Top), 81))
  /\ mem' = Live(mem, FrameRelease(Top).sp)
  /\ UNCHANGED << lifevars, nsignals, lastsig >>

\* line 81
tramp_load_syscall ==
  /\ At_(81)
  /\ SetTop(Step(LoadSyscall(Top), 82))
  /\ UNCHANGED << lifevars, mem, nsignals, lastsig >>

\* line 82: ecall.  SYS_signal_handler_return makes the kernel drop this
\* delivery and resume the context it interrupted; any other number is some
\* other system call, which returns to line 83, behind which the function ends
tramp_ecall ==
  /\ At_(82)
  /\ LET c == [Top EXCEPT !.ecalls = Append(@, Top.a0)] IN
     IF Top.a0 = SYS_signal_handler_return
     THEN /\ sigstack' = SubSeq(sigstack, 1, Len(sigstack) - 1)
          /\ lastsig' = << [c EXCEPT !.hret = << >>] >>
     ELSE /\ SetTop(Step(c, 0))
          /\ UNCHANGED lastsig
  /\ UNCHANGED << lifevars, mem, nsignals >>

NextSig ==
  \/ Next
  \/ sig_deliver
  \/ tramp_alloc
  \/ tramp_save_ra
  \/ tramp_move_args
  \/ tramp_call_handler
  \/ handler_returns
  \/ tramp_restore_ra
  \/ tramp_release
  \/ tramp_load_syscall
  \/ tramp_ecall

\* one task with one entry in each array, to which signals are delivered
InitSig ==
  /\ HAVE_CXX = TRUE
  /\ InitTask
  /\ preinit_array = << FuncAt("preinit", 0) >>
  /\ init_array = << FuncAt("init", 0) >>
  /\ fini_array = << FuncAt("fini", 0) >>
  /\ start_ctx.argc = 1
  /\ ar_sigtramp = NULL

SpecSig == InitSig /\ [][NextSig]_vars

\* the task's thread keeps being scheduled until the task has terminated
LiveSpec == Init /\ [][Next]_vars /\ WF_vars(Next)

\* the build without CONFIG_HAVE_CXX: lines 110-177 and 215-221 are compiled
\* out, so exec_preinit, exec_init, exec_fini and the registration do not
\* exist; the arrays may still hold anything
InitNoCxx ==
  /\ HAVE_CXX = FALSE
  /\ InitTask

NextNoCxx ==
  \/ start_sigtramp
  \/ call_main
  \/ main_returns
  \/ call_exit
  \/ main_exits
  \/ task_faults
  \/ run_exit_funcs

SpecNoCxx == InitNoCxx /\ [][NextNoCxx]_vars

(* ------------------------------------------------------------------ *)
(* Reading the history                                                 *)
(* ------------------------------------------------------------------ *)

\* the positions of the events of one kind
At(kind) == { i \in 1..Len(trace) : trace[i][1] = kind }

\* the invocations of one phase, in the order they happened: <<index, function>>
Calls(phase) ==
  LET E == SelectSeq(trace, LAMBDA e : e[1] = phase)
  IN  [ i \in 1..Len(E) |-> << E[i][2], E[i][3] >> ]

\* the non-null entries of an array from position j on, in ascending order:
\* <<index, function>>
RECURSIVE NonNull(_, _)
NonNull(array, j) ==
  IF j > Len(array) THEN << >>
  ELSE (IF array[j] # NULL THEN << << j - 1, array[j] >> >> ELSE << >>)
       \o NonNull(array, j + 1)

Nulls(array) == Cardinality({ j \in 1..Len(array) : array[j] = NULL })

IsPrefix(s, t) == Len(s) <= Len(t) /\ SubSeq(t, 1, Len(s)) = s

\* the exit calls made by __start itself (line 230) and by task code
StartExits == { i \in At("exit") : trace[i][3] = 0 }
TaskExits == { i \in At("exit") : trace[i][3] # 0 }

\* every invocation logged at a position before `i` has been left again
CompletedBefore(i) ==
  \A j \in 1..(i - 1) :
    trace[j][1] \in {"preinit", "init"} => trace[j + 1][1] = "returned"

(* ------------------------------------------------------------------ *)
(* C1                                                                  *)
(* ------------------------------------------------------------------ *)

\* C1: once the first statement of __start has executed, ar_sigtramp holds the
\* address of sig_trampoline in every state, whatever is running (initializers,
\* main, fini callbacks, exit), and it has been stored exactly once.
C1_SigtrampWrittenOnce ==
  pc # "start" => /\ ar_sigtramp = SIG_TRAMPOLINE
                  /\ sigtramp_writes = 1
                  /\ Cardinality(At("sigtramp")) = 1

C1_Witness ==
  /\ pc = "exec_fini" /\ incall
  /\ ar_sigtramp = SIG_TRAMPOLINE /\ sigtramp_writes = 1
  /\ At("main") # {}

(* ------------------------------------------------------------------ *)
(* C2                                                                  *)
(* ------------------------------------------------------------------ *)

\* C2: when main is invoked, the pre-init array of length n with k null entries
\* has caused exactly n-k invocations, one per non-null entry in ascending index
\* order, and so has the init array; every one of them was logged and left
\* before main was entered.
C2_InitializersBeforeMain ==
  \A m \in At("main") :
    /\ Calls("preinit") = NonNull(preinit_array, 1)
    /\ Calls("init") = NonNull(init_array, 1)
    /\ Len(Calls("preinit")) = Len(preinit_array) - Nulls(preinit_array)
    /\ Len(Calls("init")) = Len(init_array) - Nulls(init_array)
    /\ \A i \in At("preinit") \cup At("init") : i < m
    /\ CompletedBefore(m)

C2_Witness ==
  /\ At("main") # {}
  /\ Len(preinit_array) = 2 /\ preinit_array[1] = NULL /\ preinit_array[2] # NULL
  /\ Len(init_array) = 2 /\ init_array[1] # NULL /\ init_array[2] # NULL
  /\ Len(Calls("preinit")) = 1 /\ Len(Calls("init")) = 2

(* ------------------------------------------------------------------ *)
(* C3                                                                  *)
(* ------------------------------------------------------------------ *)

\* the exit calls made from a pre-init, init or fini callback
CallbackExits == { i \in At("exit") : trace[i][3] = 1 }

\* the exit calls made once exec_fini is registered and main has been
\* entered: by __start when main has returned, or by main itself
RegisteredExits == { i \in At("exit") : trace[i][3] \in {0, 2} }

\* C3 as claimed: the fini callbacks execute exactly once per task: when the
\* task has terminated through exit, whoever of the task's code called it,
\* every non-null fini entry has been invoked once, after the exit call, and
\* none twice.
C3_Original ==
  /\ IsPrefix(Calls("fini"), NonNull(fini_array, 1))
  /\ \A f \in At("fini") : \E x \in At("exit") : x < f
  /\ (pc = "done" /\ At("fault") = {} /\ Cardinality(At("exit")) = 1)
       => Calls("fini") = NonNull(fini_array, 1)

\* C3 as amended: no fini entry is invoked twice, however often exit is
\* called, and none before an exit call that follows the registration (main
\* has returned into __start's exit call, or main has called exit itself);
\* when the task has terminated through such an exit and every fini callback
\* returned, each non-null entry has been invoked exactly once.  An exit call
\* of a pre-init or init callback comes before the registration: the task
\* then terminates with no fini callback invoked.
C3_FiniOnceAfterRegisteredExit ==
  /\ IsPrefix(Calls("fini"), NonNull(fini_array, 1))
  /\ \A f \in At("fini") :
       \E x \in RegisteredExits : x < f /\ \E m \in At("main") : m < x
  /\ (pc = "done" /\ At("fault") = {} /\ RegisteredExits # {} /\ CallbackExits = {})
       => Calls("fini") = NonNull(fini_array, 1)
  /\ At("atexit") = {} => Calls("fini") = << >>

C3_Witness ==
  /\ pc = "done"
  /\ \E x \in At("exit") : trace[x][3] = 2
  /\ Len(fini_array) = 2
  /\ Len(Calls("fini")) = 2
  /\ Calls("fini") = NonNull(fini_array, 1)

(* ------------------------------------------------------------------ *)
(* C4                                                                  *)
(* ------------------------------------------------------------------ *)

\* the one call a delivery of record r has to make
HandlerCall(r) == << << r.handler, r.signo, r.info, r.context >> >>

\* C4: a delivery of (H, S, I, C) calls H once with (S, I, C): nothing is
\* called before line 78, and from the call on the calls made are that one;
\* no system call is issued while the delivery is in progress, and the
\* delivery ends by its one ecall, which is the signal-handler-return request.
C4_HandlerCalledOnceThenReturn ==
  /\ \A i \in 1..Len(sigstack) :
       LET c == sigstack[i] IN
       /\ c.ecalls = << >>
       /\ c.at \in 72..78 => c.calls = << >>
       /\ c.at \in {1} \cup 79..82 => c.calls = HandlerCall(c.rec)
       /\ c.at # 0
  /\ \A i \in 1..Len(lastsig) :
       /\ lastsig[i].calls = HandlerCall(lastsig[i].rec)
       /\ lastsig[i].ecalls = << SYS_signal_handler_return >>

C4_Witness ==
  /\ lastsig # << >>
  /\ lastsig[1].calls = << << 1001, 11, 21, 31 >> >>
  /\ lastsig[1].ecalls = << SYS_signal_handler_return >>
  /\ sigstack = << >>

(* ------------------------------------------------------------------ *)
(* C5                                                                  *)
(* ------------------------------------------------------------------ *)

\* C5: the argument __start passes to exit is the value main returned, and
\* when no task code calls exit itself the task terminates with that value.
C5_ExitStatusIsMainReturn ==
  /\ \A x \in StartExits :
       x > 1 /\ trace[x - 1] = << "main_ret", trace[x][2], 0 >>
  /\ (pc = "done" /\ TaskExits = {})
       => \E r \in At("main_ret") : trace[Len(trace)] = << "_exit", trace[r][2], 0 >>

C5_Witness ==
  /\ pc = "done" /\ TaskExits = {}
  /\ \E r \in At("main_ret") : trace[r][2] = 7
  /\ exit_status = 7

(* ------------------------------------------------------------------ *)
(* C6                                                                  *)
(* ------------------------------------------------------------------ *)

NoCallsOfEmptyPhase ==
  /\ preinit_array = << >> => Calls("preinit") = << >>
  /\ init_array = << >> => Calls("init") = << >>
  /\ fini_array = << >> => Calls("fini") = << >>

EmptyPhaseProceeds ==
  /\ (pc = "exec_preinit" /\ preinit_array = << >>)
       => (pc' = "exec_init" /\ trace' = trace)
  /\ (pc = "exec_init" /\ init_array = << >>)
       => (pc' = "atexit" /\ trace' = trace)
  /\ (pc = "exec_fini" /\ fini_array = << >>)
       => (pc' = "exit_funcs" /\ trace' = trace)

\* C6: a phase whose start and end markers are equal invokes nothing and
\* raises no fault, and the step that runs it hands control to what follows
\* the phase: exec_init after exec_preinit, atexit after exec_init, and the
\* rest of exit after exec_fini.
C6_EmptyPhase ==
  [][NoCallsOfEmptyPhase /\ NoCallsOfEmptyPhase' /\ EmptyPhaseProceeds]_vars

C6_Witness ==
  /\ pc = "done"
  /\ preinit_array = << >> /\ init_array = << >> /\ fini_array = << >>
  /\ At("main_ret") # {}

(* ------------------------------------------------------------------ *)
(* C7                                                                  *)
(* ------------------------------------------------------------------ *)

\* the place of an event in the order of __start's steps; 0: not one of them
Rank(e) ==
  CASE e[1] = "sigtramp" -> 1
    [] e[1] = "preinit" -> 2
    [] e[1] = "init" -> 3
    [] e[1] = "atexit" -> 4
    [] e[1] \in {"main", "main_ret"} -> 5
    [] e[1] = "exit" /\ e[3] = 0 -> 6
    [] OTHER -> 0

\* C7: with CONFIG_HAVE_CXX the steps of __start happen in the order
\* trampoline write, pre-init callbacks, init callbacks, atexit registration,
\* main, exit; a step begins only when everything before it has completed:
\* no init callback before the last pre-init callback has returned, the
\* registration before main, one registration, one main, one exit.
C7_LifecycleOrder ==
  /\ \A i, j \in 1..Len(trace) :
       (i < j /\ Rank(trace[i]) > 0 /\ Rank(trace[j]) > 0)
         => Rank(trace[i]) <= Rank(trace[j])
  /\ trace # << >> => trace[1] = << "sigtramp", SIG_TRAMPOLINE, 0 >>
  /\ Cardinality(At("sigtramp")) <= 1
  /\ Cardinality(At("atexit")) <= 1
  /\ Cardinality(At("main")) <= 1
  /\ Cardinality(StartExits) <= 1
  /\ \A i \in At("init") :
       Calls("preinit") = NonNull(preinit_array, 1) /\ CompletedBefore(i)
  /\ \A i \in At("atexit") :
       /\ Calls("preinit") = NonNull(preinit_array, 1)
       /\ Calls("init") = NonNull(init_array, 1)
       /\ CompletedBefore(i)
  /\ \A i \in At("main") : At("atexit") # {} /\ trace[i - 1][1] = "atexit"
  /\ \A i \in StartExits : trace[i - 1][1] = "main_ret" /\ At("main") # {}

C7_Witness ==
  /\ StartExits # {}
  /\ Len(Calls("preinit")) = 2 /\ Len(Calls("init")) = 2
  /\ At("atexit") # {}

(* ------------------------------------------------------------------ *)
(* C8                                                                  *)
(* ------------------------------------------------------------------ *)

\* C8: the non-null fini entries are invoked in ascending index order, the
\* forward order of the setup phases, none twice; when main has returned r
\* every fini invocation comes after __start's exit(r), and once the task has
\* terminated with every fini callback returned each entry has been invoked
\* exactly once and the task's status is r.
C8_FiniForwardAfterStatus ==
  /\ IsPrefix(Calls("fini"), NonNull(fini_array, 1))
  /\ \A r \in At("main_ret") : \A f \in At("fini") :
       \E x \in StartExits : x < f /\ trace[x][2] = trace[r][2]
  /\ \A r \in At("main_ret") :
       (pc = "done" /\ TaskExits = {} /\ At("fault") = {})
         => /\ Calls("fini") = NonNull(fini_array, 1)
            /\ trace[Len(trace)] = << "_exit", trace[r][2], 0 >>

C8_Witness ==
  /\ pc = "done"
  /\ Len(fini_array) = 2
  /\ Calls("fini") = << << 0, FuncAt("fini", 0) >>, << 1, FuncAt("fini", 1) >> >>
  /\ trace[Len(trace)] = << "_exit", 7, 0 >>
  /\ \E r \in At("main_ret") : trace[r][2] = 7

(* ------------------------------------------------------------------ *)
(* C9                                                                  *)
(* ------------------------------------------------------------------ *)

\* task code left an initializer or main otherwise than by returning
Diverted == TaskExits # {} \/ At("fault") # {}

\* C9: __start never returns: control is never behind its last statement,
\* once it has called exit the task is inside exit or terminated, and when
\* every initializer and main return, every execution reaches the call of
\* exit on line 230.
C9_StartNeverReturns ==
  /\ [](pc # "returned")
  /\ [](StartExits # {} => pc \in {"exit_funcs", "exec_fini", "done", "fault"})
  /\ <>(StartExits # {} \/ Diverted)

C9_Witness ==
  /\ StartExits # {} /\ ~Diverted /\ pc = "done"
  /\ Len(Calls("preinit")) = 2 /\ Len(Calls("init")) = 2

(* ------------------------------------------------------------------ *)
(* C10                                                                 *)
(* ------------------------------------------------------------------ *)

\* C10: main is invoked at most once, with the argc and argv the kernel
\* passed to __start; no step before it changes them.
C10_MainArgsPassedThrough ==
  /\ Cardinality(At("main")) <= 1
  /\ \A m \in At("main") : trace[m] = << "main", start_ctx.argc, start_ctx.argv >>
  /\ argc = start_ctx.argc /\ argv = start_ctx.argv

C10_Witness ==
  /\ \E m \in At("main") : trace[m] = << "main", 2, 512 >>
  /\ Len(Calls("preinit")) = 1 /\ Len(Calls("init")) = 1

(* ------------------------------------------------------------------ *)
(* C11                                                                 *)
(* ------------------------------------------------------------------ *)

\* where control can be inside a delivery: lines 72..82, or in the handler
TrampolineLines == (72..82) \cup {1}

\* C11: sig_trampoline never returns: control of a delivery is always on one
\* of its lines 72..82 or in the handler it called, never behind its last
\* instruction and never sent to the address ra held at entry, and a
\* delivery ends only by the ecall on line 82 carrying SYS_signal_handler_return,
\* issued after the handler was called and has returned.
C11_LeavesOnlyByEcall ==
  [][ /\ \A i \in 1..Len(sigstack') : sigstack'[i].at \in TrampolineLines
      /\ Len(sigstack') < Len(sigstack)
           => /\ Top.at = 82
              /\ Top.a0 = SYS_signal_handler_return
              /\ Len(Top.calls) = 1
              /\ Top.hret # << >>
              /\ sigstack' = SubSeq(sigstack, 1, Len(sigstack) - 1)
    ]_vars

C11_Witness ==
  /\ sigstack = << >>
  /\ nsignals = 2
  /\ lastsig # << >>
  /\ lastsig[1].ecalls = << SYS_signal_handler_return >>
  /\ pc = "done"

(* ------------------------------------------------------------------ *)
(* C12                                                                 *)
(* ------------------------------------------------------------------ *)

\* C12: with a handler that leaves sp and the stack at and above it as it
\* found them, whatever it leaves in ra: sp is the entry sp before line 72
\* and from line 81 on, and STACK_FRAME_SIZE below it in between; the ra of
\* entry stays in the frame while the handler runs, also across deliveries
\* nested inside this one, and is back in ra from line 80 on; so at the
\* ecall sp and ra are those of entry, and when no delivery is in progress
\* the stack is the task's own again.
C12_FrameBalanced ==
  /\ \A i \in 1..Len(sigstack) :
       LET c == sigstack[i] IN
       /\ c.at \in {72, 81, 82} => c.sp = c.sp_entry
       /\ c.at \in (73..80) \cup {1} => c.sp = c.sp_entry - STACK_FRAME_SIZE
       /\ c.at \in (74..79) \cup {1} => Load(mem, c.sp) = c.ra_entry
       /\ c.at \in 80..82 => c.ra = c.ra_entry
  /\ \A i \in 1..Len(lastsig) :
       lastsig[i].sp = lastsig[i].sp_entry /\ lastsig[i].ra = lastsig[i].ra_entry
  /\ sigstack = << >> => mem = TaskStack

C12_Witness ==
  /\ Len(sigstack) = 2
  /\ Top.at = 82
  /\ Top.sp = Top.sp_entry /\ Top.ra = Top.ra_entry
  /\ Top.sp_entry = TaskRegs.sp - STACK_FRAME_SIZE
  /\ Top.ra_entry = SCRATCH
  /\ Len(Top.calls) = 1

(* ------------------------------------------------------------------ *)
(* C13                                                                 *)
(* ------------------------------------------------------------------ *)

\* the invocations of one array when every callback returns
RECURSIVE RunOf(_, _, _)
RunOf(phase, array, j) ==
  IF j > Len(array) THEN << >>
  ELSE (IF array[j] # NULL
        THEN << << phase, j - 1, array[j] >>, << "returned", 0, 0 >> >>
        ELSE << >>)
       \o RunOf(phase, array, j + 1)

\* the history of the task when no signal is delivered, every callback
\* returns and main returns r
NoSignalRun(r) ==
  << << "sigtramp", SIG_TRAMPOLINE, 0 >> >>
  \o RunOf("preinit", preinit_array, 1)
  \o RunOf("init", init_array, 1)
  \o << << "atexit", 0, 0 >>, << "main", start_ctx.argc, start_ctx.argv >>,
        << "main_ret", r, 0 >>, << "exit", r, 0 >> >>
  \o RunOf("fini", fini_array, 1)
  \o << << "_exit", r, 0 >> >>

\* C13: signal deliveries are transparent to the lifecycle: every change of
\* the lifecycle's state is a step __start takes without signals, taken
\* while no delivery is in progress; a delivery leaves the live stack of the
\* task's thread untouched; and a task whose callbacks and main return ends
\* with the history and exit status of the run without signals.
C13_SignalsTransparent ==
  /\ [][Next]_lifevars
  /\ [](TaskStack \subseteq mem)
  /\ [](sigstack # << >> => pc \notin {"start", "done", "fault"})
  /\ []((pc = "done" /\ ~Diverted)
          => \E r \in RetVals : trace = NoSignalRun(r) /\ exit_status = r)

C13_Witness ==
  /\ pc = "done" /\ ~Diverted
  /\ nsignals = 2
  /\ lastsig # << >>
  /\ trace = NoSignalRun(7)
  /\ Len(Calls("fini")) = 1

(* ------------------------------------------------------------------ *)
(* C14                                                                 *)
(* ------------------------------------------------------------------ *)

\* the faults raised inside a pre-init or init callback: the event before the
\* fault is the invocation the task was in
InitializerFaults ==
  { i \in At("fault") : trace[i - 1][1] \in {"preinit", "init"} }

\* C14: when a pre-init or init callback faults the task is aborted there:
\* the fault is the last thing that happens (no step is taken by an aborted
\* task), the faulting invocation is the last of its array, no entry of a
\* later phase and no main is invoked, and no fini callback runs, exec_fini
\* not having been registered when the fault happened.
C14_InitializerFaultAborts ==
  /\ [](\A i \in InitializerFaults :
          /\ i = Len(trace)
          /\ pc = "fault" /\ ~incall
          /\ At("main") = {} /\ At("exit") = {} /\ At("_exit") = {}
          /\ At("atexit") = {} /\ atexit_funcs = << >>
          /\ Calls("fini") = << >>
          /\ trace[i - 1][1] = "preinit"
               => /\ Calls("init") = << >>
                  /\ IsPrefix(Calls("preinit"), NonNull(preinit_array, 1))
                  /\ preinit_array[preinit + 1] = trace[i - 1][3]
          /\ trace[i - 1][1] = "init"
               => /\ Calls("preinit") = NonNull(preinit_array, 1)
                  /\ IsPrefix(Calls("init"), NonNull(init_array, 1))
                  /\ init_array[init + 1] = trace[i - 1][3])
  /\ [][pc # "fault"]_vars

C14_Witness ==
  /\ InitializerFaults # {}
  /\ pc = "fault"
  /\ Len(preinit_array) = 2 /\ Len(Calls("preinit")) = 1
  /\ preinit_array[2] # NULL
  /\ Len(init_array) = 1 /\ init_array[1] # NULL
  /\ Len(fini_array) = 1 /\ fini_array[1] # NULL

(* ------------------------------------------------------------------ *)
(* C15                                                                 *)
(* ------------------------------------------------------------------ *)

\* C15: without CONFIG_HAVE_CXX no pre-init, init or fini callback is ever
\* invoked and no exit function is registered, whatever the three arrays
\* hold; __start still stores the trampoline address, then invokes main with
\* the argc and argv it was given, then calls exit with what main returned.
C15_NoCxxNoInitializers ==
  /\ Calls("preinit") = << >> /\ Calls("init") = << >> /\ Calls("fini") = << >>
  /\ At("atexit") = {} /\ atexit_funcs = << >>
  /\ pc \in {"start", "main", "exit", "exit_funcs", "done", "fault"}
  /\ pc # "start" => /\ trace[1] = << "sigtramp", SIG_TRAMPOLINE, 0 >>
                     /\ ar_sigtramp = SIG_TRAMPOLINE
  /\ \A m \in At("main") :
       m = 2 /\ trace[m] = << "main", start_ctx.argc, start_ctx.argv >>
  /\ \A x \in StartExits :
       x = 4 /\ trace[3][1] = "main_ret" /\ trace[x][2] = trace[3][2]
  /\ (pc = "done" /\ ~Diverted)
       => \E r \in RetVals :
            /\ exit_status = r
            /\ trace = << << "sigtramp", SIG_TRAMPOLINE, 0 >>,
                          << "main", start_ctx.argc, start_ctx.argv >>,
                          << "main_ret", r, 0 >>,
                          << "exit", r, 0 >>,
                          << "_exit", r, 0 >> >>

C15_Witness ==
  /\ ~HAVE_CXX
  /\ pc = "done" /\ ~Diverted
  /\ Len(preinit_array) = 2 /\ preinit_array[1] # NULL /\ preinit_array[2] # NULL
  /\ Len(init_array) = 1 /\ init_array[1] # NULL
  /\ Len(fini_array) = 2 /\ fini_array[2] # NULL
  /\ trace[4] = << "exit", 7, 0 >>
  /\ start_ctx.argc = 2

(* ------------------------------------------------------------------ *)
(* C16                                                                 *)
(* ------------------------------------------------------------------ *)

\* control enters exec_fini only from exit, which takes it off the list of
\* registered exit functions to call it
FiniEnteredFromExit ==
  (pc # "exec_fini" /\ pc' = "exec_fini")
    => /\ pc = "exit_funcs"
       /\ At("exit") # {}
       /\ atexit_funcs # << >>
       /\ atexit_funcs[Len(atexit_funcs)] = "exec_fini"
       /\ atexit_funcs' = SubSeq(atexit_funcs, 1, Len(atexit_funcs) - 1)

\* C16: __start never calls exec_fini itself: exec_fini is entered only by
\* exit calling the function registered on line 221, so every fini invocation
\* follows an exit call, and none has happened while the task is in the
\* pre-init phase, the init phase, the registration, main or on the way to
\* line 230.
C16_FiniOnlyFromExitHook ==
  /\ [][FiniEnteredFromExit]_vars
  /\ [](pc = "exec_fini" => At("exit") # {} /\ At("atexit") # {})
  /\ [](\A f \in At("fini") :
          \E x \in At("exit") : \E a \in At("atexit") : a < x /\ x < f)
  /\ [](pc \in {"start", "exec_preinit", "exec_init", "atexit", "main", "exit"}
          => Calls("fini") = << >> /\ At("exit") = {})

C16_Witness ==
  /\ pc = "exec_fini" /\ incall
  /\ \E x \in At("exit") : trace[x][3] = 2
  /\ Len(Calls("fini")) = 2
  /\ Len(Calls("preinit")) = 1 /\ Len(Calls("init")) = 1

(* ------------------------------------------------------------------ *)
(* C17                                                                 *)
(* ------------------------------------------------------------------ *)

\* C17: at the ecall on line 82 register a0 holds SYS_signal_handler_return,
\* whatever the handler returned and whatever record was delivered.
C17_EcallNumber ==
  /\ \A i \in 1..Len(sigstack) :
       sigstack[i].at = 82 => sigstack[i].a0 = SYS_signal_handler_return
  /\ \A i \in 1..Len(lastsig) :
       lastsig[i].a0 = SYS_signal_handler_return

C17_Witness ==
  /\ sigstack # << >>
  /\ Top.at = 82
  /\ Top.hret = << SYS_signal_handler_return + 1 >>
  /\ Top.a0 = SYS_signal_handler_return
  /\ Top.rec.signo = 11

====
